---------------------------- MODULE Spec2Model ----------------------------
(***************************************************************************)
(* A model of the AI screen reader of backend/ai_screen_reader.py:         *)
(*   - the Scene Interpreter (LLMInterface): response normalisation, JSON  *)
(*     parsing, the mapping of suggested actions to ActionCommand records  *)
(*     and the fixed fallback values;                                      *)
(*   - the single-shot pipeline AIScreenReader.analyze_current_screen;     *)
(*   - the monitoring lifecycle start_monitoring / stop_monitoring and the *)
(*     background thread running _monitoring_loop.                         *)
(*                                                                         *)
(* Python values are tagged records (field t).  A response text is a       *)
(* sequence of elements, each either one character or the complete         *)
(* serialised text of one JSON value (a "document"): json.loads succeeds   *)
(* exactly on a text that is one document surrounded by JSON whitespace.   *)
(* A serialised JSON value never starts or ends with a backtick, so the    *)
(* prefix/suffix tests and slices of the normalisation act on characters   *)
(* only.                                                                   *)
(***************************************************************************)
EXTENDS Integers, Sequences, FiniteSets, TLC

(***************************************************************************)
(* Bounds of the model.                                                    *)
(***************************************************************************)
\* Longest suggested_actions array drawn over the ordering alphabet.
MaxActions == 2
\* Number of start_monitoring calls (threads created) in one behaviour.
MaxThreads == 3
\* Rows of one pytesseract.image_to_data result.
MaxRows == 2
\* AIScreenReader objects and Thread objects one Flask process creates.
MaxReaders == 2
MaxLoops == 2

VARIABLES
    \* --- Scene Interpreter, one call at a time (SpecInterp) ---
    response,        \* what model_instance.generate_content does in this behaviour
    elements,        \* argument `elements` (OCR fragments)
    screenshot_b64,  \* argument `screenshot_b64`
    user_intent,     \* argument `user_intent`
    op,              \* the LLMInterface method last called
    ret,             \* what that call returned
    raised,          \* TRUE iff that call let an exception escape
    last_analysis,   \* attribute LLMInterface.last_analysis ("unset" before the first store)
    \* --- AIScreenReader.analyze_current_screen (SpecPipe) ---
    inv,             \* per invocation: its position and its local variables
    \* --- AIScreenReader monitoring lifecycle (SpecMon) ---
    is_running,      \* attribute AIScreenReader.is_running
    capture_thread,  \* attribute AIScreenReader.capture_thread (0: None)
    thread,          \* per Thread object: the position of its _monitoring_loop
    interval,        \* per Thread object: its args, the interval of the loop
    caller,          \* per caller of start/stop_monitoring: its position
    \* --- OCRProcessor.extract_text_with_boxes (SpecOcr) ---
    tesseract,       \* what pytesseract.image_to_data does in this behaviour
    ocr_elements,    \* what extract_text_with_boxes returned
    \* --- the Flask process of app.py (SpecApi) ---
    screen_reader,   \* global screen_reader (0: None), else the id of an AIScreenReader
    readers,         \* per AIScreenReader object: is_running and capture_thread
                     \* (SpecApi keeps the status of an answer, not its content,
                     \* and so leaves llm_interface.last_analysis out)
    loops,           \* per Thread object: its reader, its interval, its position
    request,         \* the request being handled, and its response once made
    effects          \* captures, OCR runs and model calls made by request handlers

interpVars == <<response, elements, screenshot_b64, user_intent, op, ret, raised, last_analysis>>

pipeVars == <<inv>>

monVars == <<is_running, capture_thread, thread, interval, caller>>

ocrVars == <<tesseract, ocr_elements>>

apiVars == <<screen_reader, readers, loops, request, effects>>

vars == <<interpVars, pipeVars, monVars, ocrVars, apiVars>>

(***************************************************************************)
(* Python / JSON values.                                                   *)
(***************************************************************************)
JNull       == [t |-> "null"]                    \* None / null
JBool(b)    == [t |-> "bool", b |-> b]
JNum(lit)   == [t |-> "num", n |-> lit]          \* lit: the number's literal
JStr(s)     == [t |-> "str", s |-> s]
JArr(items) == [t |-> "arr", items |-> items]    \* list
\* dict: members in insertion order, <<key, value>> pairs with distinct keys
JObj(members) == [t |-> "obj", members |-> members]
PyTuple(items) == [t |-> "tuple", items |-> items]
Unset       == [t |-> "unset"]                   \* attribute / variable not assigned

\* Characters of the strings that the model iterates over.
StrChars(s) ==
    CASE s = ""   -> <<>>
      [] s = "ab" -> <<JStr("a"), JStr("b")>>
      [] OTHER    -> <<JStr(s)>>

\* bool(v)
Truthy(v) ==
    CASE v.t = "null"  -> FALSE
      [] v.t = "bool"  -> v.b
      [] v.t = "num"   -> v.n \notin {"0", "0.0"}
      [] v.t = "str"   -> v.s # ""
      [] v.t = "arr"   -> Len(v.items) > 0
      [] v.t = "tuple" -> Len(v.items) > 0
      [] v.t = "obj"   -> Len(v.members) > 0
      [] OTHER         -> TRUE

\* iter(v) is defined
PyIterable(v) == v.t \in {"arr", "tuple", "obj", "str"}

\* list(iter(v)) for an iterable v: a dict iterates over its keys
PyIter(v) ==
    CASE v.t = "arr"   -> v.items
      [] v.t = "tuple" -> v.items
      [] v.t = "obj"   -> [i \in 1..Len(v.members) |-> JStr(v.members[i][1])]
      [] v.t = "str"   -> StrChars(v.s)
      [] OTHER         -> <<>>

\* hasattr(v, 'get'): only a dict has .get
HasGet(v) == v.t = "obj"

HasKey(o, k) == \E i \in 1..Len(o.members) : o.members[i][1] = k

\* o.get(k, d) for a dict o
DictGet(o, k, d) ==
    IF HasKey(o, k)
    THEN o.members[CHOOSE i \in 1..Len(o.members) : o.members[i][1] = k][2]
    ELSE d

(***************************************************************************)
(* Response texts.                                                         *)
(***************************************************************************)
Ch(c)  == [ch |-> c, doc |-> JNull]      \* one character
Doc(v) == [ch |-> "", doc |-> v]         \* the serialised text of JSON value v
IsDoc(e) == e.ch = ""

Chars(cs) == [i \in 1..Len(cs) |-> Ch(cs[i])]

Whitespace == {" ", "\n"}
IsSpace(e) == e.ch \in Whitespace

RECURSIVE LStrip(_)
LStrip(s) == IF s # <<>> /\ IsSpace(Head(s)) THEN LStrip(Tail(s)) ELSE s

RECURSIVE RStrip(_)
RStrip(s) ==
    IF s # <<>> /\ IsSpace(s[Len(s)]) THEN RStrip(SubSeq(s, 1, Len(s) - 1)) ELSE s

\* str.strip()
Strip(s) == RStrip(LStrip(s))

\* str.startswith(p), str.endswith(p)
StartsWith(s, p) == Len(s) >= Len(p) /\ SubSeq(s, 1, Len(p)) = p
EndsWith(s, p)   == Len(s) >= Len(p) /\ SubSeq(s, Len(s) - Len(p) + 1, Len(s)) = p

\* The grave accent (U+0060), which a TLA+ string literal cannot hold.
Grave == "GRAVE"

FenceJson == Chars(<<Grave, Grave, Grave, "j", "s", "o", "n">>)   \* json-tagged opening fence
Fence     == Chars(<<Grave, Grave, Grave>>)                        \* bare fence

DropFirst(s, n) == SubSeq(s, n + 1, Len(s))      \* s[n:]
DropLast(s, n)  == SubSeq(s, 1, Len(s) - n)      \* s[:-n]

\* The clean-up of the response text before json.loads (both Gemini calls).
NormalizeResponse(text) ==
    LET t0 == Strip(text)
        t1 == IF StartsWith(t0, FenceJson) THEN DropFirst(t0, 7) ELSE t0
        t2 == IF EndsWith(t1, Fence) THEN DropLast(t1, 3) ELSE t1
    IN  Strip(t2)

\* json.loads(text): the value, or JSONDecodeError
JsonLoads(text) ==
    LET body == Strip(text)
    IN  IF Len(body) = 1 /\ IsDoc(body[1])
        THEN [exc |-> "none", value |-> body[1].doc]
        ELSE [exc |-> "JSONDecodeError", value |-> JNull]

(***************************************************************************)
(* LLMInterface.                                                           *)
(***************************************************************************)
\* The dataclass ActionCommand.
ActionCommand(action_type, target, coordinates, parameters, confidence) ==
    [t |-> "ActionCommand", action_type |-> action_type, target |-> target,
     coordinates |-> coordinates, parameters |-> parameters,
     confidence |-> confidence]

\* except <clause>: does it catch exception exc?  Every exception of the model
\* derives from Exception; JSONDecodeError is caught only by its own clause
\* or by a clause naming a base class.
Catches(clause, exc) == clause = "Exception" \/ clause = exc

\* The fallback list without its last command.
get_fallback_commands_no_scroll ==
    JArr(<< ActionCommand(JStr("click"), JStr("Primary action button"),
                          PyTuple(<<JNum("400"), JNum("300")>>),
                          JObj(<< <<"button_text", JStr("Action")>> >>),
                          JNum("0.75")),
            ActionCommand(JStr("type"), JStr("Input field"),
                          PyTuple(<<JNum("300"), JNum("200")>>),
                          JObj(<< <<"text", JStr("input")>>,
                                  <<"field_type", JStr("text")>> >>),
                          JNum("0.70")) >>)

get_fallback_commands ==
    JArr(<< ActionCommand(JStr("click"), JStr("Primary action button"),
                          PyTuple(<<JNum("400"), JNum("300")>>),
                          JObj(<< <<"button_text", JStr("Action")>> >>),
                          JNum("0.75")),
            ActionCommand(JStr("type"), JStr("Input field"),
                          PyTuple(<<JNum("300"), JNum("200")>>),
                          JObj(<< <<"text", JStr("input")>>,
                                  <<"field_type", JStr("text")>> >>),
                          JNum("0.70")),
            ActionCommand(JStr("scroll"), JStr("Page content"),
                          JNull,
                          JObj(<< <<"direction", JStr("down")>>,
                                  <<"amount", JNum("3")>> >>),
                          JNum("0.65")) >>)

get_fallback_interpretation ==
    JObj(<< <<"screen_type", JStr("unknown")>>,
            <<"primary_elements",
              JArr(<<JStr("text_elements"), JStr("interactive_elements")>>)>>,
            <<"suggested_actions",
              JArr(<<JStr("click_element"), JStr("type_text")>>)>>,
            <<"context",
              JStr("Screen analysis completed with basic OCR detection")>>,
            <<"confidence", JNum("0.60")>> >>)

\* The exception raised by building one ActionCommand from action_data
\* (the constructor call of the for loop), "none" if it is built.
CommandExc(action_data) ==
    IF ~HasGet(action_data) THEN "AttributeError"
    ELSE IF /\ Truthy(DictGet(action_data, "coordinates", JNull))
            /\ ~PyIterable(DictGet(action_data, "coordinates",
                                   JArr(<<JNum("0"), JNum("0")>>)))
         THEN "TypeError"
         ELSE "none"

\* The action kinds the specification's SuggestedCommand enumerates.
RecognizedKinds == {"click", "type", "scroll", "navigate", "unknown"}

\* CommandOf with the action type validated against the enumeration.
CommandOfEnumChecked(action_data) ==
    ActionCommand(
        IF DictGet(action_data, "action_type", JStr("unknown"))
               \in {JStr(k) : k \in RecognizedKinds}
        THEN DictGet(action_data, "action_type", JStr("unknown"))
        ELSE JStr("unknown"),
        DictGet(action_data, "target", JStr("Unknown target")),
        IF Truthy(DictGet(action_data, "coordinates", JNull))
        THEN PyTuple(PyIter(DictGet(action_data, "coordinates",
                                    JArr(<<JNum("0"), JNum("0")>>))))
        ELSE JNull,
        DictGet(action_data, "parameters", JObj(<<>>)),
        DictGet(action_data, "confidence", JNum("0.5")))

\* CommandOf without the truthiness test on coordinates.
CommandOfZeroed(action_data) ==
    ActionCommand(
        DictGet(action_data, "action_type", JStr("unknown")),
        DictGet(action_data, "target", JStr("Unknown target")),
        PyTuple(PyIter(DictGet(action_data, "coordinates",
                               JArr(<<JNum("0"), JNum("0")>>)))),
        DictGet(action_data, "parameters", JObj(<<>>)),
        DictGet(action_data, "confidence", JNum("0.5")))

\* The ActionCommand built from action_data, when CommandExc is "none".
CommandOf(action_data) ==
    ActionCommand(
        DictGet(action_data, "action_type", JStr("unknown")),
        DictGet(action_data, "target", JStr("Unknown target")),
        IF Truthy(DictGet(action_data, "coordinates", JNull))
        THEN PyTuple(PyIter(DictGet(action_data, "coordinates",
                                    JArr(<<JNum("0"), JNum("0")>>))))
        ELSE JNull,
        DictGet(action_data, "parameters", JObj(<<>>)),
        DictGet(action_data, "confidence", JNum("0.5")))

\* The for loop over suggested_actions, when no constructor call raises:
\* one command appended per item, in the order of the items.
BuildCommandsDropLast(items) ==
    [i \in 1..(Len(items) - 1) |-> CommandOf(items[i])]

BuildCommands(items) == [i \in 1..Len(items) |-> CommandOf(items[i])]

\* The inner try block of analyze_screen_elements: either the commands and
\* the parsed analysis_data, or the exception the block raises.
ParseCommands(text) ==
    LET parsed == JsonLoads(NormalizeResponse(text))
        analysis_data == parsed.value
        failed(e) == [exc |-> e, commands |-> JArr(<<>>), analysis |-> JNull]
    IN  IF parsed.exc # "none" THEN failed(parsed.exc)
        ELSE IF ~HasGet(analysis_data) THEN failed("AttributeError")
        ELSE LET sa == DictGet(analysis_data, "suggested_actions", JArr(<<>>))
                 items == PyIter(sa)
                 bad == {i \in 1..Len(items) : CommandExc(items[i]) # "none"}
             IN  IF ~PyIterable(sa) THEN failed("TypeError")
                 ELSE IF bad # {}
                 THEN failed(CommandExc(items[CHOOSE i \in bad :
                                               \A j \in bad : i <= j]))
                 ELSE [exc |-> "none",
                       commands |-> JArr(BuildCommands(items)),
                       analysis |-> analysis_data]

\* What one generate_content call does: transport is "ok" and text is
\* response.text, or transport names the exception the call raises.
Response(transport, text) == [transport |-> transport, text |-> text]

\* analyze_screen_elements(elements, screenshot_b64): the value returned
\* (value), the exception that escapes (exc) and the value assigned to
\* self.last_analysis (store; Unset when the assignment is not reached).
analyze_screen_elements(els, b64, resp) ==
    LET body == IF resp.transport = "ok" THEN ParseCommands(resp.text)
                ELSE [exc |-> resp.transport, commands |-> JArr(<<>>),
                      analysis |-> JNull]
    IN  IF body.exc = "none"
        THEN [exc |-> "none", value |-> body.commands, store |-> body.analysis]
        ELSE IF resp.transport = "ok" /\ Catches("JSONDecodeError", body.exc)
        THEN [exc |-> "none", value |-> get_fallback_commands, store |-> Unset]
        ELSE IF Catches("Exception", body.exc)
        THEN [exc |-> "none", value |-> get_fallback_commands, store |-> Unset]
        ELSE [exc |-> body.exc, value |-> JNull, store |-> Unset]

\* interpret_screen_context(screenshot_b64, user_intent)
interpret_screen_context(b64, intent, resp) ==
    LET parsed == IF resp.transport = "ok"
                  THEN JsonLoads(NormalizeResponse(resp.text))
                  ELSE [exc |-> resp.transport, value |-> JNull]
    IN  IF parsed.exc = "none"
        THEN [exc |-> "none", value |-> parsed.value]
        ELSE IF resp.transport = "ok" /\ Catches("JSONDecodeError", parsed.exc)
        THEN [exc |-> "none", value |-> get_fallback_interpretation]
        ELSE IF Catches("Exception", parsed.exc)
        THEN [exc |-> "none", value |-> get_fallback_interpretation]
        ELSE [exc |-> parsed.exc, value |-> JNull]

\* get_detailed_analysis(): getattr(self, 'last_analysis', {})
get_detailed_analysis(la) == IF la = Unset THEN JObj(<<>>) ELSE la

(***************************************************************************)
(* ScreenCapture and OCRProcessor.                                         *)
(***************************************************************************)
JInt(i) == [t |-> "int", i |-> i]                       \* a Python int
JFloatDiv(a, b) == [t |-> "float", num |-> a, den |-> b] \* the float a / b

\* capture_screen(): grab is the frame ImageGrab.grab() returns, or the
\* exception it raises; the except clause turns every exception into None.
capture_screen(grab) == IF grab.t = "frame" THEN grab ELSE JNull

\* "if screenshot is None" in analyze_current_screen and _monitoring_loop.
CaptureFailedNever(screenshot) == FALSE

CaptureFailed(screenshot) == screenshot = JNull

\* preprocess_image(image): cv2.cvtColor raises on None.
preprocess_image(image) ==
    IF image.t = "frame"
    THEN [exc |-> "none", value |-> [t |-> "processed", of |-> image.id]]
    ELSE [exc |-> "cv2.error", value |-> JNull]

\* extract_text_with_boxes(image): engine is what pytesseract.image_to_data
\* does, the exception it raises or the columns it returns as rows.
extract_text_with_boxes(image, engine) ==
    IF engine.exc # "none" THEN JArr(<<>>)
    ELSE LET kept == SelectSeq(engine.data,
                        LAMBDA d : d.conf > 30 /\ Strip(d.text) # <<>>)
         IN  JArr([i \in 1..Len(kept) |->
                JObj(<< <<"text", [t |-> "text", chars |-> Strip(kept[i].text)]>>,
                        <<"bbox", PyTuple(<<JInt(kept[i].left), JInt(kept[i].top),
                                            JInt(kept[i].width), JInt(kept[i].height)>>)>>,
                        <<"confidence", JFloatDiv(kept[i].conf, 100)>>,
                        <<"coordinates",
                          PyTuple(<<JInt(kept[i].left + kept[i].width \div 2),
                                    JInt(kept[i].top + kept[i].height \div 2)>>)>> >>)])

\* base64 of the JPEG encoding of a frame.
EncodeB64(screenshot) == screenshot.id

(***************************************************************************)
(* AIScreenReader.analyze_current_screen.                                  *)
(***************************************************************************)
\* The dict of one command in the result.
CommandDict(cmd) ==
    JObj(<< <<"action_type", cmd.action_type>>, <<"target", cmd.target>>,
            <<"coordinates", cmd.coordinates>>, <<"parameters", cmd.parameters>>,
            <<"confidence", cmd.confidence>> >>)

ErrorResult(message) == JObj(<< <<"error", JStr(message)>> >>)

\* The return statement of analyze_current_screen: the result dict, or the
\* error dict of the except clause when interpretation has no .get.
AssembleResult(elems, commands, interpretation, detailed_analysis, b64) ==
    IF ~HasGet(interpretation)
    THEN ErrorResult("AttributeError: object has no attribute 'get'")
    ELSE JObj(<<
        <<"timestamp", JStr("time.time()")>>,
        <<"elements", elems>>,
        <<"commands", JArr([i \in 1..Len(commands.items) |->
                               CommandDict(commands.items[i])])>>,
        <<"interpretation", interpretation>>,
        <<"detailed_analysis", detailed_analysis>>,
        <<"screenshot_b64", JStr(b64)>>,
        <<"summary", JObj(<<
            <<"screen_type", DictGet(interpretation, "screen_type", JStr("unknown"))>>,
            <<"application", DictGet(interpretation, "application_name", JStr("Unknown"))>>,
            <<"context", DictGet(interpretation, "current_context", JStr("Screen analysis"))>>,
            <<"elements_found", JInt(Len(elems.items))>>,
            <<"commands_generated", JInt(Len(commands.items))>>,
            <<"confidence", DictGet(interpretation, "confidence", JNum("0.5"))>> >>)>> >>)

\* "error" in result
IsError(result) == result.t = "obj" /\ HasKey(result, "error")

\* Calls of analyze_current_screen on one AIScreenReader that may overlap;
\* SpecPipe makes them one after another.
Invocations == {1, 2}

\* An invocation that has not started (or has returned).
IdleInvocation ==
    [pc |-> "idle", screenshot |-> Unset, elements |-> Unset, commands |-> Unset,
     interpretation |-> Unset, result |-> Unset, calls |-> <<>>,
     got |-> <<>>, ocr |-> Unset]

(***************************************************************************)
(* AIScreenReader: the state __init__ leaves for the monitoring lifecycle. *)
(***************************************************************************)
Threads == 1..MaxThreads

\* Positions of a Thread object: not constructed, constructed, the five
\* positions of _monitoring_loop, finished.
LoopPositions == {"test", "capture", "ocr", "commands", "sleep", "except"}

\* A Thread whose run() is over: "done" when _monitoring_loop returned,
\* "died" when an exception escaped it.
Finished == {"done", "died"}

\* threading.Thread.is_alive()
IsAlive(t) == thread[t] \in LoopPositions

\* The interval argument: a number of seconds, or any other JSON value.
Seconds(n) == [t |-> "seconds", n |-> n]

\* time.sleep(interval): the exception it raises, "none" when it returns.
time_sleep(secs) ==
    IF secs.t # "seconds" THEN "TypeError"
    ELSE IF secs.n < 0 THEN "ValueError"
    ELSE "none"

IdleCaller == [pc |-> "idle", joining |-> 0, exc |-> "none", interval |-> Unset]

\* Callers of start_monitoring / stop_monitoring: the threads of two
\* request handlers. SpecMon lets one of them make one call after another.
MonCallers == {1, 2}

InitMonitoring ==
    /\ is_running = FALSE
    /\ capture_thread = 0
    /\ thread = [t \in Threads |-> "unborn"]
    /\ interval = [t \in Threads |-> Unset]
    /\ caller = [c \in MonCallers |-> IdleCaller]

\* No OCR call and no Flask process in this behaviour.
InitOcrIdle ==
    /\ tesseract = Unset
    /\ ocr_elements = Unset

InitApiIdle ==
    /\ screen_reader = 0
    /\ readers = <<>>
    /\ loops = <<>>
    /\ request = Unset
    /\ effects = <<>>

(***************************************************************************)
(* The inputs the model draws: JSON documents, response texts, arguments.  *)
(***************************************************************************)
SeqsUpTo(S, n) == UNION {[1..k -> S] : k \in 0..n}

Restrict(o, K) == JObj(SelectSeq(o.members, LAMBDA m : m[1] \in K))

WithMember(o, k, v) ==
    JObj([i \in 1..Len(o.members) |->
            IF o.members[i][1] = k THEN <<k, v>> ELSE o.members[i]])

\* The five fields of a suggested action that analyze_screen_elements reads.
ActionFields == {"action_type", "target", "coordinates", "parameters", "confidence"}

\* A suggested action as the prompt's schema describes it.
FullAction ==
    JObj(<< <<"action_type", JStr("click")>>,
            <<"target", JStr("Submit button")>>,
            <<"coordinates", JArr(<<JNum("10"), JNum("20")>>)>>,
            <<"parameters", JObj(<< <<"additional_info", JStr("value")>> >>)>>,
            <<"confidence", JNum("0.85")>>,
            <<"explanation", JStr("Submits the form")>> >>)

\* Every combination of missing fields.
PartialActions == {Restrict(FullAction, K \cup {"explanation"}) : K \in SUBSET ActionFields}

CoordinateValues ==
    { JNull, JArr(<<>>), JNum("0"), JBool(FALSE), JStr(""), JObj(<<>>),
      JArr(<<JNum("0"), JNum("0")>>), JArr(<<JNum("7")>>),
      JNum("5"), JBool(TRUE), JStr("ab"),
      JObj(<< <<"x", JNum("10")>>, <<"y", JNum("20")>> >>) }

ActionTypeValues ==
    { JStr("type"), JStr("scroll"), JStr("navigate"), JStr("unknown"),
      JStr("hover"), JStr("drag"), JStr(""), JNull, JNum("7") }

VariantActions ==
    {WithMember(FullAction, "coordinates", v) : v \in CoordinateValues}
        \cup {WithMember(FullAction, "action_type", v) : v \in ActionTypeValues}
        \cup {WithMember(FullAction, k, JNull) : k \in ActionFields}

Actions == PartialActions \cup VariantActions

\* Distinct actions, to tell the positions of a list apart.
OrderingActions ==
    { FullAction,
      WithMember(FullAction, "action_type", JStr("hover")),
      Restrict(FullAction, {"target"}) }

ActionLists == {<<a>> : a \in Actions} \cup SeqsUpTo(OrderingActions, MaxActions)

\* Values of suggested_actions that are not arrays of objects.
OddSuggestedActions ==
    { JNull, JNum("5"), JBool(TRUE), JStr(""), JStr("ab"), JObj(<<>>),
      JObj(<< <<"a", FullAction>> >>),
      JArr(<<JNum("5")>>), JArr(<<JNull>>), JArr(<<JArr(<<>>)>>),
      JArr(<<FullAction, JStr("click")>>) }

AnalysisWith(sa) ==
    JObj(<< <<"screen_description", JStr("A login form")>>,
            <<"ui_elements", JArr(<<>>)>>,
            <<"context", JStr("Signing in")>>,
            <<"suggested_actions", sa>>,
            <<"screen_type", JStr("login_page")>>,
            <<"confidence", JNum("0.90")>> >>)

FullAnalysis == AnalysisWith(JArr(<<FullAction>>))

AnalysisDocs ==
    {AnalysisWith(JArr(l)) : l \in ActionLists}
        \cup {AnalysisWith(v) : v \in OddSuggestedActions}
        \cup {Restrict(FullAnalysis, {"screen_description", "confidence"}), JObj(<<>>)}

FullInterpretation ==
    JObj(<< <<"application_name", JStr("Mail")>>,
            <<"current_context", JStr("Reading the inbox")>>,
            <<"screen_type", JStr("dashboard")>>,
            <<"visible_elements", JArr(<<>>)>>,
            <<"user_workflow", JStr("Triage")>>,
            <<"next_steps", JStr("Open a message")>>,
            <<"important_data", JStr("3 unread")>>,
            <<"accessibility_notes", JStr("none")>>,
            <<"confidence", JNum("0.95")>> >>)

InterpretationDocs ==
    { FullInterpretation,
      Restrict(FullInterpretation, {"application_name", "next_steps"}) }

\* JSON values that are not objects.
NonObjectDocs ==
    { JNull, JNum("42"), JBool(TRUE), JStr("hello"), JArr(<<>>),
      JArr(<<FullAction>>), JArr(<<FullInterpretation>>) }

Docs == AnalysisDocs \cup InterpretationDocs \cup NonObjectDocs

\* Documents drawn in every wrapping; the others are drawn bare.
WrappedDocs == {FullAnalysis, FullInterpretation, JArr(<<>>), JNull}

NL == Chars(<<"\n">>)
SP == Chars(<<" ">>)

TaggedFenced(v)   == FenceJson \o NL \o <<Doc(v)>> \o NL \o Fence
UntaggedFenced(v) == Fence \o NL \o <<Doc(v)>> \o NL \o Fence

Wrappings(v) ==
    { <<Doc(v)>>,
      NL \o <<Doc(v)>> \o SP,
      TaggedFenced(v),
      UntaggedFenced(v),
      FenceJson \o <<Doc(v)>> \o Fence,
      SP \o TaggedFenced(v) \o NL,
      NL \o UntaggedFenced(v) \o SP,
      FenceJson \o NL \o <<Doc(v)>>,
      <<Doc(v)>> \o NL \o Fence,
      Chars(<<"x", " ">>) \o <<Doc(v)>>,
      TaggedFenced(v) \o Chars(<<"\n", "x">>),
      <<Doc(v)>> \o SP \o <<Doc(v)>> }

\* Texts holding no document: empty, blank, prose, a truncated object, fences.
BrokenTexts ==
    { <<>>, SP, Chars(<<"x">>), Chars(<<"{">>), Chars(<<"j", "s", "o", "n">>),
      Fence, FenceJson, FenceJson \o NL \o Fence,
      FenceJson \o NL \o Chars(<<"{">>) \o NL \o Fence }

Texts ==
    {<<Doc(v)>> : v \in Docs}
        \cup UNION {Wrappings(v) : v \in WrappedDocs}
        \cup BrokenTexts

\* Exceptions of generate_content or of reading response.text.
TransportErrors == {"TransportError", "ValueError"}

Responses ==
    {Response("ok", text) : text \in Texts}
        \cup {Response(e, <<>>) : e \in TransportErrors}

\* An OCR fragment as extract_text_with_boxes builds it.
SampleElement ==
    [text |-> "Submit", bbox |-> <<0, 0, 20, 10>>, confidence |-> "0.9",
     coordinates |-> <<10, 5>>]

ElementLists == {<<>>, <<SampleElement>>}
Screenshots  == {"frameA", "frameB"}
UserIntents  == {"", "log in"}

(***************************************************************************)
(* SpecInterp: the methods of one LLMInterface applied to drawn inputs.    *)
(***************************************************************************)
InitInterp ==
    /\ response \in Responses
    /\ elements \in ElementLists
    /\ screenshot_b64 \in Screenshots
    /\ user_intent \in UserIntents
    /\ op = "none"
    /\ ret = Unset
    /\ raised = FALSE
    /\ last_analysis = Unset
    /\ inv = [i \in Invocations |-> IdleInvocation]
    /\ InitMonitoring
    /\ InitOcrIdle
    /\ InitApiIdle

CallAnalyzeScreenElements ==
    LET r == analyze_screen_elements(elements, screenshot_b64, response)
    IN  /\ op' = "analyze_screen_elements"
        /\ ret' = r.value
        /\ raised' = (r.exc # "none")
        /\ last_analysis' = IF r.store = Unset THEN last_analysis ELSE r.store
        /\ UNCHANGED <<response, elements, screenshot_b64, user_intent, pipeVars, monVars, ocrVars, apiVars>>

CallInterpretScreenContext ==
    LET r == interpret_screen_context(screenshot_b64, user_intent, response)
    IN  /\ op' = "interpret_screen_context"
        /\ ret' = r.value
        /\ raised' = (r.exc # "none")
        /\ UNCHANGED <<response, elements, screenshot_b64, user_intent, last_analysis, pipeVars, monVars, ocrVars, apiVars>>

CallGetDetailedAnalysis ==
    /\ op' = "get_detailed_analysis"
    /\ ret' = get_detailed_analysis(last_analysis)
    /\ raised' = FALSE
    /\ UNCHANGED <<response, elements, screenshot_b64, user_intent, last_analysis, pipeVars, monVars, ocrVars, apiVars>>

NextInterp ==
    \/ CallAnalyzeScreenElements
    \/ CallInterpretScreenContext
    \/ CallGetDetailedAnalysis

SpecInterp == InitInterp /\ [][NextInterp]_vars

(***************************************************************************)
(* SpecOcr: extract_text_with_boxes applied to drawn engine outcomes.      *)
(***************************************************************************)
Frame(id) == [t |-> "frame", id |-> id]
Raises(e) == [t |-> "raises", exc |-> e]

OcrRow(text, conf) ==
    [text |-> Chars(text), conf |-> conf, left |-> 4, top |-> 6, width |-> 21, height |-> 9]

\* Rows of data['text'][i] and data['conf'][i]; conf is -1 for a row that is
\* no word, else 0..100.
OcrRows ==
    { OcrRow(text, conf) : text \in { <<>>, <<" ">>, <<"a">>, <<" ", "b", " ">> },
                           conf \in {-1, 30, 31, 96} }

\* What pytesseract.image_to_data does: it raises, or returns its rows.
OcrOutcomes ==
    {[exc |-> e, data |-> <<>>] : e \in {"TesseractNotFoundError", "TesseractError"}}
    \cup {[exc |-> "none", data |-> rows] : rows \in SeqsUpTo(OcrRows, MaxRows)}

InitOcr ==
    /\ tesseract \in OcrOutcomes
    /\ ocr_elements = Unset
    /\ inv = [i \in Invocations |-> IdleInvocation]
    /\ last_analysis = Unset
    /\ response = Response("ok", <<>>)
    /\ elements = <<>>
    /\ screenshot_b64 = "frameA"
    /\ user_intent = ""
    /\ op = "none"
    /\ ret = Unset
    /\ raised = FALSE
    /\ InitMonitoring
    /\ InitApiIdle

\* elements = self.ocr_processor.extract_text_with_boxes(processed_image)
CallExtractTextWithBoxes ==
    /\ ocr_elements = Unset
    /\ ocr_elements' =
          extract_text_with_boxes(preprocess_image(Frame("frameA")).value, tesseract)
    /\ UNCHANGED <<tesseract, interpVars, pipeVars, monVars, apiVars>>

NextOcr == CallExtractTextWithBoxes

SpecOcr == InitOcr /\ [][NextOcr]_vars

(***************************************************************************)
(* SpecPipe: invocations of analyze_current_screen on one AIScreenReader.  *)
(***************************************************************************)
\* What ImageGrab.grab() does.
Grabs == {Frame(id) : id \in Screenshots} \cup {Raises("OSError")}

\* What pytesseract.image_to_data does.
OcrEngines ==
    { [exc |-> "TesseractNotFoundError", data |-> <<>>],
      [exc |-> "none", data |-> <<>>],
      [exc |-> "none",
       data |-> << OcrRow(<<" ", "O", "K">>, 96), OcrRow(<<"x">>, 12),
                   OcrRow(<<" ">>, 95) >>] }

\* What generate_content does in the commands call and in the context call.
PipeResponses1 ==
    { Response("ok", <<Doc(FullAnalysis)>>),
      Response("ok", TaggedFenced(AnalysisWith(JArr(<<>>)))),
      Response("ok", UntaggedFenced(FullAnalysis)),
      Response("ok", <<Doc(JArr(<<>>))>>),
      Response("ok", Chars(<<"x">>)),
      Response("TransportError", <<>>) }

PipeResponses2 ==
    { Response("ok", <<Doc(FullInterpretation)>>),
      Response("ok", TaggedFenced(Restrict(FullInterpretation, {"next_steps"}))),
      Response("ok", <<Doc(JArr(<<>>))>>),
      Response("ok", <<Doc(JNull)>>),
      Response("ok", <<Doc(JNum("42"))>>),
      Response("ok", Chars(<<"{">>)),
      Response("TransportError", <<>>) }

InitPipe ==
    /\ inv = [i \in Invocations |-> IdleInvocation]
    /\ last_analysis = Unset
    /\ response = Response("ok", <<>>)
    /\ elements = <<>>
    /\ screenshot_b64 = "frameA"
    /\ user_intent = ""
    /\ op = "none"
    /\ ret = Unset
    /\ raised = FALSE
    /\ InitMonitoring
    /\ InitOcrIdle
    /\ InitApiIdle

\* analyze_current_screen() is called.
Begin(i) ==
    /\ inv[i].pc = "idle"
    /\ inv' = [inv EXCEPT ![i] = [IdleInvocation EXCEPT !.pc = "capture"]]
    /\ UNCHANGED <<interpVars, monVars, ocrVars, apiVars>>

\* screenshot = self.screen_capture.capture_screen(); if screenshot is None: return
Capture(i) ==
    /\ inv[i].pc = "capture"
    /\ \E grab \in Grabs :
          LET screenshot == capture_screen(grab)
              called == Append(inv[i].calls, "capture_screen")
          IN  inv' = [inv EXCEPT ![i] =
                  IF CaptureFailed(screenshot)
                  THEN [@ EXCEPT !.pc = "done", !.screenshot = screenshot,
                                 !.calls = called,
                                 !.result = ErrorResult("Failed to capture screen")]
                  ELSE [@ EXCEPT !.pc = "ocr", !.screenshot = screenshot,
                                 !.calls = called]]
    /\ UNCHANGED <<interpVars, monVars, ocrVars, apiVars>>

\* The model is called without the preprocessor and the text detector having run.
OcrSkipped(i) ==
    /\ inv[i].pc = "ocr"
    /\ inv' = [inv EXCEPT ![i].pc = "commands", ![i].elements = JArr(<<>>)]
    /\ UNCHANGED <<interpVars, monVars, ocrVars, apiVars>>

\* processed_image = preprocess_image(screenshot); elements = extract_text_with_boxes(...)
Ocr(i) ==
    /\ inv[i].pc = "ocr"
    /\ \E engine \in OcrEngines :
          LET processed == preprocess_image(inv[i].screenshot)
          IN  inv' = [inv EXCEPT ![i] =
                  IF processed.exc # "none"
                  THEN [@ EXCEPT !.pc = "done",
                                 !.calls = Append(@, "preprocess_image"),
                                 !.result = ErrorResult(processed.exc)]
                  ELSE [@ EXCEPT !.pc = "commands",
                                 !.calls = @ \o <<"preprocess_image",
                                                  "extract_text_with_boxes">>,
                                 !.ocr = engine,
                                 !.elements =
                                     extract_text_with_boxes(processed.value, engine)]]
    /\ UNCHANGED <<interpVars, monVars, ocrVars, apiVars>>

\* commands = self.llm_interface.analyze_screen_elements(elements, screenshot_b64)
Commands(i) ==
    /\ inv[i].pc = "commands"
    /\ \E resp \in PipeResponses1 :
          LET r == analyze_screen_elements(inv[i].elements,
                                           EncodeB64(inv[i].screenshot), resp)
          IN  /\ inv' = [inv EXCEPT ![i] =
                   IF r.exc # "none"
                   THEN [@ EXCEPT !.pc = "done",
                                  !.calls = Append(@, "analyze_screen_elements"),
                                  !.got = Append(@, resp),
                                  !.result = ErrorResult(r.exc)]
                   ELSE [@ EXCEPT !.pc = "context",
                                  !.calls = Append(@, "analyze_screen_elements"),
                                  !.got = Append(@, resp),
                                  !.commands = r.value]]
              /\ last_analysis' = IF r.store = Unset THEN last_analysis ELSE r.store
    /\ UNCHANGED <<response, elements, screenshot_b64, user_intent, op, ret, raised, monVars, ocrVars, apiVars>>

\* interpretation = self.llm_interface.interpret_screen_context(screenshot_b64, "")
Context(i) ==
    /\ inv[i].pc = "context"
    /\ \E resp \in PipeResponses2 :
          LET r == interpret_screen_context(EncodeB64(inv[i].screenshot), "", resp)
          IN  inv' = [inv EXCEPT ![i] =
                   IF r.exc # "none"
                   THEN [@ EXCEPT !.pc = "done",
                                  !.calls = Append(@, "interpret_screen_context"),
                                  !.got = Append(@, resp),
                                  !.result = ErrorResult(r.exc)]
                   ELSE [@ EXCEPT !.pc = "assemble",
                                  !.calls = Append(@, "interpret_screen_context"),
                                  !.got = Append(@, resp),
                                  !.interpretation = r.value]]
    /\ UNCHANGED <<interpVars, monVars, ocrVars, apiVars>>

\* detailed_analysis = get_detailed_analysis(); return {...}
Assemble(i) ==
    /\ inv[i].pc = "assemble"
    /\ inv' = [inv EXCEPT ![i] =
          [@ EXCEPT !.pc = "done",
                    !.calls = Append(@, "get_detailed_analysis"),
                    !.result = AssembleResult(inv[i].elements, inv[i].commands,
                                              inv[i].interpretation,
                                              get_detailed_analysis(last_analysis),
                                              EncodeB64(inv[i].screenshot))]]
    /\ UNCHANGED <<interpVars, monVars, ocrVars, apiVars>>

\* The caller takes the result.
Return(i) ==
    /\ inv[i].pc = "done"
    /\ inv' = [inv EXCEPT ![i] = IdleInvocation]
    /\ UNCHANGED <<interpVars, monVars, ocrVars, apiVars>>

PipeStep(i) ==
    \/ Begin(i)
    \/ Capture(i)
    \/ Ocr(i)
    \/ Commands(i)
    \/ Context(i)
    \/ Assemble(i)
    \/ Return(i)

NextPipe == \E i \in {1} : PipeStep(i)

SpecPipe == InitPipe /\ [][NextPipe]_vars

NextConc == \E i \in Invocations : PipeStep(i)

SpecConc == InitPipe /\ [][NextConc]_vars

(***************************************************************************)
(* SpecMon: start_monitoring, stop_monitoring and the loop threads.        *)
(***************************************************************************)
InitMon ==
    /\ InitMonitoring
    /\ InitOcrIdle
    /\ InitApiIdle
    /\ inv = [i \in Invocations |-> IdleInvocation]
    /\ last_analysis = Unset
    /\ response = Response("ok", <<>>)
    /\ elements = <<>>
    /\ screenshot_b64 = "frameA"
    /\ user_intent = ""
    /\ op = "none"
    /\ ret = Unset
    /\ raised = FALSE

MonFrame == UNCHANGED <<interpVars, pipeVars, ocrVars, apiVars>>

\* What start_monitoring is called with.
Intervals == {Seconds(2), Seconds(-1), JStr("soon")}

\* What cv2.imencode does in a poll cycle.
Imencodes == {"none", "cv2.error"}

\* start_monitoring(interval): self.is_running = True
StartSetFlag(c) ==
    /\ caller[c].pc = "idle"
    /\ \E t \in Threads : thread[t] = "unborn"
    /\ is_running' = TRUE
    /\ \E secs \in Intervals :
          caller' = [caller EXCEPT ![c] =
                        [IdleCaller EXCEPT !.pc = "start_create", !.interval = secs]]
    /\ UNCHANGED <<capture_thread, thread, interval>>
    /\ MonFrame

\* self.capture_thread = threading.Thread(target=self._monitoring_loop,
\*                                        args=(interval,), daemon=True)
StartCreateThread(c) ==
    /\ caller[c].pc = "start_create"
    /\ \E t \in Threads :
          /\ thread[t] = "unborn"
          /\ \A w \in Threads : thread[w] = "unborn" => t <= w
          /\ capture_thread' = t
          /\ thread' = [thread EXCEPT ![t] = "created"]
          /\ interval' = [interval EXCEPT ![t] = caller[c].interval]
    /\ caller' = [caller EXCEPT ![c].pc = "start_run"]
    /\ UNCHANGED is_running
    /\ MonFrame

\* self.capture_thread.start(): a Thread can be started once
StartRunThread(c) ==
    /\ caller[c].pc = "start_run"
    /\ IF thread[capture_thread] = "created"
       THEN /\ thread' = [thread EXCEPT ![capture_thread] = "test"]
            /\ caller' = [caller EXCEPT ![c].pc = "start_ret"]
       ELSE /\ thread' = thread
            /\ caller' = [caller EXCEPT ![c] = [@ EXCEPT !.pc = "start_ret",
                                                         !.exc = "RuntimeError"]]
    /\ UNCHANGED <<is_running, capture_thread, interval>>
    /\ MonFrame

\* logger.info("Screen monitoring started"); start_monitoring returns
StartReturn(c) ==
    /\ caller[c].pc = "start_ret"
    /\ caller' = [caller EXCEPT ![c] = IdleCaller]
    /\ UNCHANGED <<is_running, capture_thread, thread, interval>>
    /\ MonFrame

\* stop_monitoring: self.is_running = False
StopClearFlag(c) ==
    /\ caller[c].pc = "idle"
    /\ is_running' = FALSE
    /\ caller' = [caller EXCEPT ![c] = [IdleCaller EXCEPT !.pc = "stop_check"]]
    /\ UNCHANGED <<capture_thread, thread, interval>>
    /\ MonFrame

\* if self.capture_thread: self.capture_thread.join() -- the call is made
StopCheckThread(c) ==
    /\ caller[c].pc = "stop_check"
    /\ caller' = [caller EXCEPT ![c] =
          IF capture_thread = 0 THEN [@ EXCEPT !.pc = "stop_ret"]
          ELSE IF thread[capture_thread] = "created"
          THEN [@ EXCEPT !.pc = "stop_ret", !.exc = "RuntimeError"]
          ELSE [@ EXCEPT !.pc = "stop_join", !.joining = capture_thread]]
    /\ UNCHANGED <<is_running, capture_thread, thread, interval>>
    /\ MonFrame

\* join() returns once the joined thread has finished
StopJoined(c) ==
    /\ caller[c].pc = "stop_join"
    /\ thread[caller[c].joining] \in Finished
    /\ caller' = [caller EXCEPT ![c].pc = "stop_ret"]
    /\ UNCHANGED <<is_running, capture_thread, thread, interval>>
    /\ MonFrame

\* logger.info("Screen monitoring stopped"); stop_monitoring returns
StopReturn(c) ==
    /\ caller[c].pc = "stop_ret"
    /\ caller' = [caller EXCEPT ![c] = IdleCaller]
    /\ UNCHANGED <<is_running, capture_thread, thread, interval>>
    /\ MonFrame

LoopFrame == UNCHANGED <<is_running, capture_thread, interval, caller>>

\* _monitoring_loop: while self.is_running
LoopTest(t) ==
    /\ thread[t] = "test"
    /\ thread' = [thread EXCEPT ![t] = IF is_running THEN "capture" ELSE "done"]
    /\ LoopFrame
    /\ MonFrame

\* screenshot = capture_screen(); if screenshot is None: sleep and continue
LoopCapture(t) ==
    /\ thread[t] = "capture"
    /\ \E grab \in Grabs :
          thread' = [thread EXCEPT ![t] =
                        IF CaptureFailed(capture_screen(grab)) THEN "sleep" ELSE "ocr"]
    /\ LoopFrame
    /\ MonFrame

\* preprocess_image and extract_text_with_boxes; cv2.imencode, b64encode
LoopOcr(t) ==
    /\ thread[t] = "ocr"
    /\ \E encoded \in Imencodes :
          thread' = [thread EXCEPT ![t] =
                        IF Catches("Exception", encoded) /\ encoded # "none"
                        THEN "except" ELSE "commands"]
    /\ LoopFrame
    /\ MonFrame

\* commands = analyze_screen_elements(...); logger.info
LoopCommands(t) ==
    /\ thread[t] = "commands"
    /\ thread' = [thread EXCEPT ![t] = "sleep"]
    /\ LoopFrame
    /\ MonFrame

\* time.sleep(interval) inside the try block: when it raises, the except
\* clause takes over
LoopSleep(t) ==
    /\ thread[t] = "sleep"
    /\ thread' = [thread EXCEPT ![t] =
                     IF time_sleep(interval[t]) = "none" THEN "test" ELSE "except"]
    /\ LoopFrame
    /\ MonFrame

\* except Exception: logger.error(...); time.sleep(interval) -- an exception
\* raised here escapes _monitoring_loop and ends the thread
LoopExcept(t) ==
    /\ thread[t] = "except"
    /\ thread' = [thread EXCEPT ![t] =
                     IF time_sleep(interval[t]) = "none" THEN "test" ELSE "died"]
    /\ LoopFrame
    /\ MonFrame

CallerStep(c) ==
    \/ StartSetFlag(c)
    \/ StartCreateThread(c)
    \/ StartRunThread(c)
    \/ StartReturn(c)
    \/ StopClearFlag(c)
    \/ StopCheckThread(c)
    \/ StopJoined(c)
    \/ StopReturn(c)

LoopStep(t) ==
    \/ LoopTest(t)
    \/ LoopCapture(t)
    \/ LoopOcr(t)
    \/ LoopCommands(t)
    \/ LoopSleep(t)
    \/ LoopExcept(t)

NextMon ==
    \/ \E c \in {1} : CallerStep(c)
    \/ \E t \in Threads : LoopStep(t)

SpecMon == InitMon /\ [][NextMon]_vars

\* start_monitoring and stop_monitoring called from two request handlers at
\* once. Every thread that can take a step is scheduled again: callers and
\* loops are threads of one process, and each capture, OCR and model call
\* returns.
NextMonConc ==
    \/ \E c \in MonCallers : CallerStep(c)
    \/ \E t \in Threads : LoopStep(t)

SpecMonConc ==
    /\ InitMon
    /\ [][NextMonConc]_vars
    /\ \A c \in MonCallers : WF_vars(CallerStep(c))
    /\ \A t \in Threads : WF_vars(LoopStep(t))

(***************************************************************************)
(* SpecApi: the Flask process of app.py, one request after another, and    *)
(* the poll loops its AIScreenReader objects run.                          *)
(***************************************************************************)
\* self.last_analysis after a call of analyze_screen_elements that returned c.
StoreOf(c, la) == IF c.store = Unset THEN la ELSE c.store

AllCalls == <<"capture_screen", "preprocess_image", "extract_text_with_boxes",
              "analyze_screen_elements", "interpret_screen_context",
              "get_detailed_analysis">>

\* analyze_current_screen() from the two model calls on: c and x are what
\* analyze_screen_elements and interpret_screen_context did.
AnalysisAssembled(elems, b64, c, x, la) ==
    IF c.exc # "none"
    THEN [result |-> ErrorResult(c.exc), calls |-> SubSeq(AllCalls, 1, 4),
          la |-> StoreOf(c, la)]
    ELSE IF x.exc # "none"
    THEN [result |-> ErrorResult(x.exc), calls |-> SubSeq(AllCalls, 1, 5),
          la |-> StoreOf(c, la)]
    ELSE [result |-> AssembleResult(elems, c.value, x.value,
                                    get_detailed_analysis(StoreOf(c, la)), b64),
          calls |-> AllCalls, la |-> StoreOf(c, la)]

\* analyze_current_screen() from the OCR result on.
AnalysisOfElements(elems, b64, resp1, resp2, la) ==
    AnalysisAssembled(elems, b64, analyze_screen_elements(elems, b64, resp1),
                      interpret_screen_context(b64, "", resp2), la)

\* analyze_current_screen() from the capture on.
AnalysisOfCapture(screenshot, processed, engine, resp1, resp2, la) ==
    IF CaptureFailed(screenshot)
    THEN [result |-> ErrorResult("Failed to capture screen"),
          calls |-> SubSeq(AllCalls, 1, 1), la |-> la]
    ELSE IF processed.exc # "none"
    THEN [result |-> ErrorResult(processed.exc),
          calls |-> SubSeq(AllCalls, 1, 2), la |-> la]
    ELSE AnalysisOfElements(extract_text_with_boxes(processed.value, engine),
                            EncodeB64(screenshot), resp1, resp2, la)

AnalysisOfScreenshot(screenshot, engine, resp1, resp2, la) ==
    AnalysisOfCapture(screenshot, preprocess_image(screenshot), engine,
                      resp1, resp2, la)

\* analyze_current_screen() as one call: the dict returned, the calls made
\* and the value of llm_interface.last_analysis afterwards.
analyze_current_screen(grab, engine, resp1, resp2, la) ==
    AnalysisOfScreenshot(capture_screen(grab), engine, resp1, resp2, la)

\* "if not screen_reader" in the four guarded endpoints.
NotInitializedNever(sr) == FALSE

NotInitialized(sr) == sr = 0

GuardedEndpoints == {"/api/analyze/detailed", "/api/explain",
                     "/api/monitor/start", "/api/monitor/stop"}

\* request.get_json() of the initialize requests the model sends.
InitializeBodies ==
    { JObj(<< <<"api_key", JStr("key")>> >>), JObj(<< <<"api_key", JStr("")>> >>),
      JObj(<<>>), JNull }

\* What the environment does during one request or one poll cycle.
ApiGrabs == {Frame("frameA"), Raises("OSError")}

ApiResponses1 == { Response("ok", <<Doc(FullAnalysis)>>), Response("ok", Chars(<<"x">>)) }

ApiResponses2 == { Response("ok", <<Doc(FullInterpretation)>>), Response("ok", <<Doc(JNull)>>) }

\* jsonify(...), status: the response of the handler of endpoint.
HttpResponse(endpoint, body, status, reply) ==
    [endpoint |-> endpoint, body |-> body, status |-> status, reply |-> reply,
     joining |-> 0]

\* No handler is running: requests are handled one after another.
NoRequestPending == IF request = Unset THEN TRUE ELSE request.status # 0

ApiFrame == UNCHANGED <<interpVars, pipeVars, monVars, ocrVars>>

InitApi ==
    /\ screen_reader = 0
    /\ readers = <<>>
    /\ loops = <<>>
    /\ request = Unset
    /\ effects = <<>>
    /\ inv = [i \in Invocations |-> IdleInvocation]
    /\ last_analysis = Unset
    /\ response = Response("ok", <<>>)
    /\ elements = <<>>
    /\ screenshot_b64 = "frameA"
    /\ user_intent = ""
    /\ op = "none"
    /\ ret = Unset
    /\ raised = FALSE
    /\ InitMonitoring
    /\ InitOcrIdle

\* POST /api/initialize with the global cleared before the key is tested.
ApiInitializeClearing ==
    /\ NoRequestPending
    /\ \E body \in InitializeBodies, ctor \in {"none", "Exception"} :
          LET ep == "/api/initialize"
          IN  IF ~HasGet(body)
              THEN /\ request' = HttpResponse(ep, body, 500, "AttributeError")
                   /\ UNCHANGED <<screen_reader, readers>>
              ELSE IF ~Truthy(DictGet(body, "api_key", JNull))
              THEN /\ request' = HttpResponse(ep, body, 400, "API key is required")
                   /\ screen_reader' = 0
                   /\ UNCHANGED readers
              ELSE IF ctor # "none"
              THEN /\ request' = HttpResponse(ep, body, 500, ctor)
                   /\ UNCHANGED <<screen_reader, readers>>
              ELSE /\ Len(readers) < MaxReaders
                   /\ readers' = Append(readers, [is_running |-> FALSE, capture_thread |-> 0])
                   /\ screen_reader' = Len(readers) + 1
                   /\ request' = HttpResponse(ep, body, 200, "initialized")
    /\ effects' = <<>>
    /\ UNCHANGED loops
    /\ ApiFrame

\* POST /api/initialize
ApiInitialize ==
    /\ NoRequestPending
    /\ \E body \in InitializeBodies, ctor \in {"none", "Exception"} :
          LET ep == "/api/initialize"
          IN  IF ~HasGet(body)
              THEN /\ request' = HttpResponse(ep, body, 500, "AttributeError")
                   /\ UNCHANGED <<screen_reader, readers>>
              ELSE IF ~Truthy(DictGet(body, "api_key", JNull))
              THEN /\ request' = HttpResponse(ep, body, 400, "API key is required")
                   /\ UNCHANGED <<screen_reader, readers>>
              ELSE IF ctor # "none"
              THEN /\ request' = HttpResponse(ep, body, 500, ctor)
                   /\ UNCHANGED <<screen_reader, readers>>
              ELSE /\ Len(readers) < MaxReaders
                   /\ readers' = Append(readers, [is_running |-> FALSE, capture_thread |-> 0])
                   /\ screen_reader' = Len(readers) + 1
                   /\ request' = HttpResponse(ep, body, 200, "initialized")
    /\ effects' = <<>>
    /\ UNCHANGED loops
    /\ ApiFrame

\* analyze_screen_detailed(): the response of the handler.
AnalysisAnswer(out) ==
    IF IsError(out.result)
    THEN HttpResponse("/api/analyze/detailed", JNull, 500, "error")
    ELSE HttpResponse("/api/analyze/detailed", JNull, 200, "analysis")

\* POST /api/analyze/detailed
ApiAnalyzeDetailed ==
    /\ NoRequestPending
    /\ IF NotInitialized(screen_reader)
       THEN /\ request' = HttpResponse("/api/analyze/detailed", JNull, 400,
                                       "Screen reader not initialized")
            /\ effects' = <<>>
       ELSE IF screen_reader = 0       \* None.analyze_current_screen
       THEN /\ request' = HttpResponse("/api/analyze/detailed", JNull, 500,
                                       "AttributeError")
            /\ effects' = <<>>
       ELSE \E grab \in ApiGrabs,
               engine \in { [exc |-> "TesseractNotFoundError", data |-> <<>>] },
               resp1 \in ApiResponses1, resp2 \in ApiResponses2 :
               /\ request' = AnalysisAnswer(
                      analyze_current_screen(grab, engine, resp1, resp2, Unset))
               /\ effects' =
                      analyze_current_screen(grab, engine, resp1, resp2, Unset).calls
    /\ UNCHANGED <<screen_reader, readers, loops>>
    /\ ApiFrame

\* explain_screen() once interpret_screen_context has been called.
ExplanationAnswer(body, explanation) ==
    IF explanation.exc # "none"
    THEN HttpResponse("/api/explain", body, 500, explanation.exc)
    ELSE HttpResponse("/api/explain", body, 200, "explanation")

\* explain_screen(): the response of the handler.
ExplainOfCapture(sr, body, screenshot, encoded, resp) ==
    IF NotInitialized(sr)
    THEN HttpResponse("/api/explain", body, 400, "Screen reader not initialized")
    ELSE IF ~HasGet(body) \/ sr = 0
    THEN HttpResponse("/api/explain", body, 500, "AttributeError")
    ELSE IF CaptureFailed(screenshot)
    THEN HttpResponse("/api/explain", body, 500, "Failed to capture screen")
    ELSE IF encoded # "none"
    THEN HttpResponse("/api/explain", body, 500, encoded)
    ELSE ExplanationAnswer(body,
             interpret_screen_context(EncodeB64(screenshot),
                                      DictGet(body, "user_intent", JStr("")), resp))

\* explain_screen(): the calls the handler made.
ExplainCalls(sr, body, screenshot, encoded) ==
    IF NotInitialized(sr) \/ ~HasGet(body) \/ sr = 0 THEN <<>>
    ELSE IF CaptureFailed(screenshot) \/ encoded # "none" THEN <<"capture_screen">>
    ELSE <<"capture_screen", "interpret_screen_context">>

\* POST /api/explain
ApiExplain ==
    /\ NoRequestPending
    /\ \E body \in { JObj(<< <<"user_intent", JStr("what is this")>> >>), JNull },
          grab \in ApiGrabs, encoded \in Imencodes,
          resp \in ApiResponses2 :
          /\ request' = ExplainOfCapture(screen_reader, body, capture_screen(grab),
                                         encoded, resp)
          /\ effects' = ExplainCalls(screen_reader, body, capture_screen(grab), encoded)
    /\ UNCHANGED <<screen_reader, readers, loops>>
    /\ ApiFrame

\* POST /api/monitor/start: screen_reader.start_monitoring(interval) sets the
\* flag, creates the Thread, keeps it in capture_thread and starts it
ApiMonitorStart ==
    /\ NoRequestPending
    /\ \E body \in { JObj(<<>>), JNull, JObj(<< <<"interval", Seconds(-1)>> >>) } :
          LET ep == "/api/monitor/start"
          IN  IF NotInitialized(screen_reader)
              THEN /\ request' = HttpResponse(ep, body, 400, "Screen reader not initialized")
                   /\ UNCHANGED <<readers, loops>>
              ELSE IF ~HasGet(body) \/ screen_reader = 0
              THEN /\ request' = HttpResponse(ep, body, 500, "AttributeError")
                   /\ UNCHANGED <<readers, loops>>
              ELSE /\ Len(loops) < MaxLoops
                   /\ loops' = Append(loops,
                          [reader |-> screen_reader,
                           interval |-> DictGet(body, "interval", Seconds(2)),
                           pos |-> "test"])
                   /\ readers' = [readers EXCEPT
                          ![screen_reader].is_running = TRUE,
                          ![screen_reader].capture_thread = Len(loops) + 1]
                   /\ request' = HttpResponse(ep, body, 200, "monitoring_started")
    /\ effects' = <<>>
    /\ UNCHANGED screen_reader
    /\ ApiFrame

\* POST /api/monitor/stop: screen_reader.stop_monitoring() clears the flag
\* and joins capture_thread; the handler answers once join() has returned
ApiMonitorStop ==
    /\ NoRequestPending
    /\ LET ep == "/api/monitor/stop"
       IN  IF NotInitialized(screen_reader)
           THEN /\ request' = HttpResponse(ep, JNull, 400, "Screen reader not initialized")
                /\ UNCHANGED readers
           ELSE IF screen_reader = 0       \* None.stop_monitoring
           THEN /\ request' = HttpResponse(ep, JNull, 500, "AttributeError")
                /\ UNCHANGED readers
           ELSE /\ readers' = [readers EXCEPT ![screen_reader].is_running = FALSE]
                /\ request' =
                      IF readers[screen_reader].capture_thread = 0
                      THEN HttpResponse(ep, JNull, 200, "monitoring_stopped")
                      ELSE [HttpResponse(ep, JNull, 0, "")
                               EXCEPT !.joining = readers[screen_reader].capture_thread]
    /\ effects' = <<>>
    /\ UNCHANGED <<screen_reader, loops>>
    /\ ApiFrame

\* self.capture_thread.join() returns; jsonify({"status": "monitoring_stopped"})
ApiMonitorStopJoined ==
    /\ request # Unset
    /\ request.status = 0
    /\ request.joining \in 1..Len(loops)
    /\ loops[request.joining].pos \in Finished
    /\ request' = HttpResponse(request.endpoint, request.body, 200, "monitoring_stopped")
    /\ UNCHANGED <<screen_reader, readers, loops, effects>>
    /\ ApiFrame

\* One iteration of _monitoring_loop in Thread k: the while test, the cycle
\* and the time.sleep(interval) that ends every path through it, in the try
\* block and again in the except clause; an exception raised by the
\* sleep of the except clause ends the thread.
ApiLoopCycle(k) ==
    /\ loops[k].pos = "test"
    /\ loops' = [loops EXCEPT ![k].pos =
                    IF ~readers[loops[k].reader].is_running THEN "done"
                    ELSE IF time_sleep(loops[k].interval) = "none" THEN "test"
                    ELSE "died"]
    /\ UNCHANGED <<screen_reader, readers, request, effects>>
    /\ ApiFrame

NextApi ==
    \/ ApiInitialize
    \/ ApiAnalyzeDetailed
    \/ ApiExplain
    \/ ApiMonitorStart
    \/ ApiMonitorStop
    \/ ApiMonitorStopJoined
    \/ \E k \in 1..Len(loops) : ApiLoopCycle(k)

SpecApi == InitApi /\ [][NextApi]_vars

(***************************************************************************)
(* Scene Interpreter properties (SpecInterp).                              *)
(***************************************************************************)
IsCommandList(v) ==
    v.t = "arr" /\ \A i \in 1..Len(v.items) : v.items[i].t = "ActionCommand"

\* The response of this behaviour after normalisation and json.loads.
ParsedResponse == JsonLoads(NormalizeResponse(response.text))

\* The model call failed in transport, or its text failed JSON parsing.
ResponseUnparsed ==
    response.transport # "ok" \/ ParsedResponse.exc = "JSONDecodeError"

\* C5: for every model response, analyze_screen_elements and
\* interpret_screen_context raise nothing and return a list of ActionCommand,
\* respectively a mapping (the interpretation fields or the fixed fallback);
\* no other shape of value, such as a parsed array or scalar, is returned.
C5_InterpreterTotalAndTyped ==
    /\ ~raised
    /\ op = "analyze_screen_elements" => IsCommandList(ret)
    /\ op = "interpret_screen_context" => ret.t = "obj"

\* The three fallback commands and the fallback interpretation, as the
\* specification fixes them.
C6_FallbackCommands ==
    JArr(<< [t |-> "ActionCommand", action_type |-> JStr("click"),
             target |-> JStr("Primary action button"),
             coordinates |-> PyTuple(<<JNum("400"), JNum("300")>>),
             parameters |-> JObj(<< <<"button_text", JStr("Action")>> >>),
             confidence |-> JNum("0.75")],
            [t |-> "ActionCommand", action_type |-> JStr("type"),
             target |-> JStr("Input field"),
             coordinates |-> PyTuple(<<JNum("300"), JNum("200")>>),
             parameters |-> JObj(<< <<"text", JStr("input")>>,
                                    <<"field_type", JStr("text")>> >>),
             confidence |-> JNum("0.70")],
            [t |-> "ActionCommand", action_type |-> JStr("scroll"),
             target |-> JStr("Page content"),
             coordinates |-> JNull,
             parameters |-> JObj(<< <<"direction", JStr("down")>>,
                                    <<"amount", JNum("3")>> >>),
             confidence |-> JNum("0.65")] >>)

C6_FallbackInterpretation ==
    JObj(<< <<"screen_type", JStr("unknown")>>,
            <<"primary_elements",
              JArr(<<JStr("text_elements"), JStr("interactive_elements")>>)>>,
            <<"suggested_actions",
              JArr(<<JStr("click_element"), JStr("type_text")>>)>>,
            <<"context",
              JStr("Screen analysis completed with basic OCR detection")>>,
            <<"confidence", JNum("0.60")>> >>)

\* C6: when the model call fails in transport or its response fails JSON
\* parsing, analyze_screen_elements returns exactly the three fixed fallback
\* commands (click, type, scroll) and interpret_screen_context the fixed
\* fallback interpretation, whatever the frame, the OCR fragments and the
\* response text, and no exception is raised.
C6_FallbackOnUnparsed ==
    ResponseUnparsed =>
        /\ ~raised
        /\ op = "analyze_screen_elements" => ret = C6_FallbackCommands
        /\ op = "interpret_screen_context" => ret = C6_FallbackInterpretation

C6_Witness ==
    /\ response.transport = "ok"
    /\ ParsedResponse.exc = "JSONDecodeError"
    /\ elements # <<>>
    /\ op = "analyze_screen_elements"
    /\ Len(ret.items) = 3

\* The JSON objects that this behaviour's response wraps in a fence, tagged
\* json or untagged.
FencedObjects ==
    {v \in Docs : v.t = "obj" /\ response.transport = "ok"
                  /\ response.text \in {TaggedFenced(v), UntaggedFenced(v)}}

\* C7: a response that is a valid JSON object wrapped in a leading and a
\* trailing triple-backtick fence, tagged json or untagged, is parsed to the
\* same result as the unwrapped object.
C7_FencedParsedLikeUnwrapped ==
    \A v \in FencedObjects :
        /\ op = "analyze_screen_elements" =>
              ret = analyze_screen_elements(elements, screenshot_b64,
                                            Response("ok", <<Doc(v)>>)).value
        /\ op = "interpret_screen_context" => ret = v

\* The response text of this behaviour parsed as it stands (no clean-up).
RawParsed ==
    IF response.transport = "ok" THEN JsonLoads(response.text)
    ELSE [exc |-> response.transport, value |-> JNull]

\* A suggested action whose fields, where present, have the schema's types.
SchemaAction(a) ==
    /\ a.t = "obj"
    /\ HasKey(a, "action_type") => DictGet(a, "action_type", JNull).t = "str"
    /\ HasKey(a, "target") => DictGet(a, "target", JNull).t = "str"
    /\ HasKey(a, "coordinates") =>
          LET c == DictGet(a, "coordinates", JNull)
          IN  c.t = "arr" /\ \A i \in 1..Len(c.items) : c.items[i].t = "num"
    /\ HasKey(a, "parameters") => DictGet(a, "parameters", JNull).t = "obj"
    /\ HasKey(a, "confidence") => DictGet(a, "confidence", JNull).t = "num"

MatchesSchema(v) ==
    /\ v.t = "obj"
    /\ HasKey(v, "suggested_actions")
    /\ LET sa == DictGet(v, "suggested_actions", JNull)
       IN  sa.t = "arr" /\ \A i \in 1..Len(sa.items) : SchemaAction(sa.items[i])

\* Command cmd carries every field that suggested action a supplies.
CarriesFieldsOf(cmd, a) ==
    /\ cmd.t = "ActionCommand"
    /\ HasKey(a, "action_type") => cmd.action_type = DictGet(a, "action_type", JNull)
    /\ HasKey(a, "target") => cmd.target = DictGet(a, "target", JNull)
    /\ (HasKey(a, "coordinates") /\ Truthy(DictGet(a, "coordinates", JNull))) =>
          cmd.coordinates = PyTuple(DictGet(a, "coordinates", JNull).items)
    /\ HasKey(a, "parameters") => cmd.parameters = DictGet(a, "parameters", JNull)
    /\ HasKey(a, "confidence") => cmd.confidence = DictGet(a, "confidence", JNull)

\* C8: given a response that is valid JSON matching the schema,
\* analyze_screen_elements returns as many commands as suggested_actions has
\* entries, and the i-th command is built from the i-th suggested action.
C8_LengthAndOrderPreserved ==
    (/\ op = "analyze_screen_elements"
     /\ RawParsed.exc = "none"
     /\ MatchesSchema(RawParsed.value)) =>
        LET sa == DictGet(RawParsed.value, "suggested_actions", JNull).items
        IN  /\ ret.t = "arr"
            /\ Len(ret.items) = Len(sa)
            /\ \A i \in 1..Len(sa) : CarriesFieldsOf(ret.items[i], sa[i])

C8_Witness ==
    /\ op = "analyze_screen_elements"
    /\ RawParsed.exc = "none"
    /\ MatchesSchema(RawParsed.value)
    /\ Len(ret.items) = 2
    /\ ret.items[1] # ret.items[2]

\* The suggested actions of the analysis that analyze_screen_elements
\* stored, when it stored one whose suggested_actions is an array.
StoredActions ==
    IF last_analysis = Unset THEN <<>>
    ELSE LET sa == DictGet(last_analysis, "suggested_actions", JArr(<<>>))
         IN  IF sa.t = "arr" THEN sa.items ELSE <<>>

\* The call returned commands it built from the parsed response.
BuiltFromParsed == op = "analyze_screen_elements" /\ last_analysis # Unset

\* C9 (as stated): every command produced from a parsed response has an
\* action kind in {click, type, scroll, navigate, unknown}; an unrecognized
\* upstream action_type is mapped to unknown.
C9_ActionKindInEnum ==
    op = "analyze_screen_elements" =>
        /\ ~raised
        /\ \A i \in 1..Len(ret.items) :
              ret.items[i].action_type \in {JStr(k) : k \in RecognizedKinds}

\* C9 (amended): every command produced from a parsed response carries the
\* upstream action_type value unchanged when the field is present, whatever
\* the value, and "unknown" only when the field is absent; nothing is raised.
C9_ActionKindCopiedThrough ==
    BuiltFromParsed =>
        /\ ~raised
        /\ Len(ret.items) = Len(StoredActions)
        /\ \A i \in 1..Len(StoredActions) :
              ret.items[i].action_type =
                  IF HasKey(StoredActions[i], "action_type")
                  THEN DictGet(StoredActions[i], "action_type", JNull)
                  ELSE JStr("unknown")

C9_Witness ==
    /\ BuiltFromParsed
    /\ \E i \in 1..Len(StoredActions) :
          /\ DictGet(StoredActions[i], "action_type", JNull) = JStr("hover")
          /\ ret.items[i].action_type = JStr("hover")

\* The parsed response is an object whose suggested_actions is an array of
\* objects: the suggested actions that the mapping is applied to.
MappedActions ==
    IF /\ response.transport = "ok"
       /\ ParsedResponse.exc = "none"
       /\ ParsedResponse.value.t = "obj"
       /\ DictGet(ParsedResponse.value, "suggested_actions", JArr(<<>>)).t = "arr"
    THEN DictGet(ParsedResponse.value, "suggested_actions", JArr(<<>>)).items
    ELSE <<>>

MappingApplies ==
    /\ op = "analyze_screen_elements"
    /\ MappedActions # <<>>
    /\ \A i \in 1..Len(MappedActions) : MappedActions[i].t = "obj"

\* A field of a command: a present field copied, a missing one defaulted.
CopiedOrDefault(a, k, default) == IF HasKey(a, k) THEN DictGet(a, k, JNull) ELSE default

\* A JSON array copied into the command as the tuple of its elements.
CopyOfCoordinates(v) == IF v.t = "arr" THEN PyTuple(v.items) ELSE v

\* C10 (as stated): each missing field takes its default (action type
\* "unknown", target "Unknown target", parameters an empty mapping,
\* confidence 0.5), coordinates are None when absent or falsy, and every
\* field that is present is copied unchanged.
C10_DefaultsAndCopies ==
    MappingApplies =>
        /\ ret.t = "arr"
        /\ Len(ret.items) = Len(MappedActions)
        /\ \A i \in 1..Len(MappedActions) :
              LET a == MappedActions[i]
                  cmd == ret.items[i]
              IN  /\ cmd.action_type = CopiedOrDefault(a, "action_type", JStr("unknown"))
                  /\ cmd.target = CopiedOrDefault(a, "target", JStr("Unknown target"))
                  /\ cmd.parameters = CopiedOrDefault(a, "parameters", JObj(<<>>))
                  /\ cmd.confidence = CopiedOrDefault(a, "confidence", JNum("0.5"))
                  /\ cmd.coordinates =
                        IF HasKey(a, "coordinates")
                           /\ Truthy(DictGet(a, "coordinates", JNull))
                        THEN CopyOfCoordinates(DictGet(a, "coordinates", JNull))
                        ELSE JNull

\* Coordinates that are truthy but cannot be iterated: tuple() raises.
UniterableCoordinates(a) ==
    /\ HasKey(a, "coordinates")
    /\ Truthy(DictGet(a, "coordinates", JNull))
    /\ DictGet(a, "coordinates", JNull).t \in {"num", "bool"}

\* tuple(v) for the truthy values that can be iterated.
TupleOfCoordinates(v) ==
    CASE v.t = "arr" -> PyTuple(v.items)
      [] v.t = "str" -> PyTuple(StrChars(v.s))
      [] v.t = "obj" -> PyTuple([j \in 1..Len(v.members) |-> JStr(v.members[j][1])])

\* C10 (amended): as stated, except for a truthy coordinates value, which is
\* passed through tuple(): an array becomes the tuple of its elements, a
\* string the tuple of its characters, an object the tuple of its keys, and
\* a truthy value that cannot be iterated (a non-zero number, true) makes the
\* whole call return the fixed fallback commands.
C10_DefaultsAndTupledCoordinates ==
    MappingApplies =>
        IF \E i \in 1..Len(MappedActions) : UniterableCoordinates(MappedActions[i])
        THEN ret = C6_FallbackCommands
        ELSE /\ ret.t = "arr"
             /\ Len(ret.items) = Len(MappedActions)
             /\ \A i \in 1..Len(MappedActions) :
                  LET a == MappedActions[i]
                      cmd == ret.items[i]
                  IN  /\ cmd.action_type = CopiedOrDefault(a, "action_type", JStr("unknown"))
                      /\ cmd.target = CopiedOrDefault(a, "target", JStr("Unknown target"))
                      /\ cmd.parameters = CopiedOrDefault(a, "parameters", JObj(<<>>))
                      /\ cmd.confidence = CopiedOrDefault(a, "confidence", JNum("0.5"))
                      /\ cmd.coordinates =
                            IF HasKey(a, "coordinates")
                               /\ Truthy(DictGet(a, "coordinates", JNull))
                            THEN TupleOfCoordinates(DictGet(a, "coordinates", JNull))
                            ELSE JNull

\* A suggested action with none of the five fields was mapped to a command
\* holding the five defaults.
C10_Witness ==
    /\ MappingApplies
    /\ \E i \in 1..Len(MappedActions) :
          /\ \A k \in ActionFields : ~HasKey(MappedActions[i], k)
          /\ ret.items[i] = [t |-> "ActionCommand",
                             action_type |-> JStr("unknown"),
                             target |-> JStr("Unknown target"),
                             coordinates |-> JNull,
                             parameters |-> JObj(<<>>),
                             confidence |-> JNum("0.5")]

(***************************************************************************)
(* Pipeline properties (SpecPipe).                                         *)
(***************************************************************************)
\* C3: when capture_screen returns no frame, analyze_current_screen returns
\* the failure reporting the capture failure, and neither the
\* preprocessor/OCR stage nor any model call is made in that invocation.
C3_CaptureFailureStopsPipeline ==
    \A i \in Invocations :
        (inv[i].pc = "done" /\ inv[i].screenshot = JNull) =>
            /\ inv[i].result = JObj(<< <<"error", JStr("Failed to capture screen")>> >>)
            /\ inv[i].calls = <<"capture_screen">>

C3_Witness ==
    \E i \in Invocations :
        /\ inv[i].pc = "done"
        /\ inv[i].screenshot = JNull
        /\ IsError(inv[i].result)

\* C4: whenever capture succeeds, analyze_current_screen returns a populated
\* result, not a failure, for every outcome of the OCR engine and every
\* model response.
C4_FailureOnlyOnCaptureFailure ==
    \A i \in Invocations :
        (inv[i].pc = "done" /\ inv[i].screenshot.t = "frame") =>
            ~IsError(inv[i].result)

(***************************************************************************)
(* Monitoring properties (SpecMon).                                        *)
(***************************************************************************)
\* C1: at most one poll loop is active in every reachable state; a
\* start_monitoring while Running spawns no second loop.
C1_AtMostOneLoop == Cardinality({t \in Threads : IsAlive(t)}) <= 1

\* C2: when stop_monitoring returns, every loop thread that was ever started
\* has exited, so no loop performs a further capture, OCR or model call.
C2_NoLoopAfterStop ==
    \A c \in MonCallers :
        caller[c].pc = "stop_ret" => \A t \in Threads : ~IsAlive(t)

(***************************************************************************)
(* Text Detector properties (SpecOcr).                                     *)
(***************************************************************************)
\* The engine-reported rows that are not below the threshold of 30 and whose
\* trimmed text is non-empty, in the engine's order.
NotBelowThreshold == SelectSeq(tesseract.data,
                               LAMBDA d : d.conf >= 30 /\ Strip(d.text) # <<>>)

\* Element e is the fragment made of row d.
FragmentOf(e, d) ==
    /\ DictGet(e, "text", JNull) = [t |-> "text", chars |-> Strip(d.text)]
    /\ DictGet(e, "confidence", JNull) = JFloatDiv(d.conf, 100)

\* C11: extract_text_with_boxes returns, in the engine's order, exactly the
\* engine-reported fragments whose confidence is not below 30 and whose
\* trimmed text is non-empty: none of them is discarded, nothing else is
\* returned.
C11_ExactlyFragmentsNotBelowThreshold ==
    (ocr_elements # Unset /\ tesseract.exc = "none") =>
        /\ Len(ocr_elements.items) = Len(NotBelowThreshold)
        /\ \A k \in 1..Len(NotBelowThreshold) :
              FragmentOf(ocr_elements.items[k], NotBelowThreshold[k])

(***************************************************************************)
(* More pipeline properties (SpecPipe).                                    *)
(***************************************************************************)
\* The OCR engine raised in invocation i, whose capture had succeeded.
OcrRaised(i) ==
    /\ inv[i].screenshot # Unset
    /\ inv[i].screenshot.t = "frame"
    /\ inv[i].ocr # Unset
    /\ inv[i].ocr.exc # "none"

\* The command dicts built from the actions response resp proposes.
CommandDictsOf(resp) ==
    LET built == ParseCommands(resp.text).commands
    IN  JArr([k \in 1..Len(built.items) |-> CommandDict(built.items[k])])

\* resp was received and parsed into a list of proposed actions.
ResponseUsed(resp) ==
    resp.transport = "ok" /\ ParseCommands(resp.text).exc = "none"

\* C12: when capture succeeds and the OCR engine raises, the text detector
\* returns an empty list, and analyze_current_screen returns a result (not a
\* failure) whose fragment list is empty and whose command list is non-empty
\* and built from the model response of that invocation.
C12_OcrFailureStillYieldsCommands ==
    \A i \in Invocations :
        OcrRaised(i) =>
            /\ inv[i].elements = JArr(<<>>)
            /\ inv[i].pc = "done" =>
                  /\ ~IsError(inv[i].result)
                  /\ DictGet(inv[i].result, "elements", JNull) = JArr(<<>>)
                  /\ DictGet(inv[i].result, "commands", JNull).items # <<>>
                  /\ ResponseUsed(inv[i].got[1])
                  /\ DictGet(inv[i].result, "commands", JNull)
                        = CommandDictsOf(inv[i].got[1])

(***************************************************************************)
(* HTTP API properties (SpecApi).                                          *)
(***************************************************************************)
\* This step is a handler of one of the four guarded endpoints answering.
GuardedRequestAnswered ==
    /\ request' # request
    /\ request'.endpoint \in GuardedEndpoints
    /\ request'.status # 0

\* C13: while no orchestrator exists (screen_reader is None), a request to
\* /api/analyze/detailed, /api/explain, /api/monitor/start or
\* /api/monitor/stop is answered with status 400, makes no capture, OCR or
\* model call, and leaves the orchestrator, its flags and its threads as
\* they were.
C13_UninitializedAnswers400 ==
    [][ (screen_reader = 0 /\ GuardedRequestAnswered) =>
            /\ request'.status = 400
            /\ effects' = <<>>
            /\ UNCHANGED <<screen_reader, readers, loops>> ]_vars

\* A guarded endpoint has answered 400 and no orchestrator exists, also
\* after an /api/initialize that failed.
C13_Witness ==
    /\ screen_reader = 0
    /\ request # Unset
    /\ request.endpoint \in GuardedEndpoints
    /\ request.status = 400
    /\ effects = <<>>

(***************************************************************************)
(* Overlapping invocations (SpecConc).                                     *)
(***************************************************************************)
\* What invocation i returns when nothing but its own capture, OCR result
\* and model responses decides it: last_analysis is what its own commands
\* call stored.
OwnResult(i) ==
    AnalysisOfElements(inv[i].elements, EncodeB64(inv[i].screenshot),
                       inv[i].got[1], inv[i].got[2], Unset).result

\* The commands response of invocation i was parsed and stored.
OwnResponseStored(i) ==
    /\ Len(inv[i].got) = 2
    /\ analyze_screen_elements(inv[i].elements, EncodeB64(inv[i].screenshot),
                               inv[i].got[1]).store # Unset

\* C14: overlapping invocations of analyze_current_screen are independent:
\* the result of an invocation whose commands response was parsed, its
\* detailed_analysis included, is the one its own capture, OCR result and
\* model responses determine, whatever another invocation does meanwhile.
C14_InvocationsIndependent ==
    \A i \in Invocations :
        (inv[i].pc = "done" /\ OwnResponseStored(i)) => inv[i].result = OwnResult(i)

(***************************************************************************)
(* More monitoring properties (SpecMon, SpecMonConc).                      *)
(***************************************************************************)
\* Thread t is in a poll cycle that failed: the capture failed and the loop
\* is waiting, or a stage raised and the except clause is running.
CycleFailed(t) == thread[t] \in {"sleep", "except"}

\* C15: a failure in one poll cycle does not terminate the loop: after the
\* wait the loop is back at its while test for the next cycle, and a loop
\* thread ends only at that test, with the run flag cleared by a stop.
C15_FailureKeepsLoopAlive ==
    [][ \A t \in Threads :
           /\ (CycleFailed(t) /\ thread'[t] # thread[t]) =>
                  thread'[t] \in {"test", "except"}
           /\ (IsAlive(t) /\ ~IsAlive(t)') => (thread[t] = "test" /\ ~is_running) ]_vars

(***************************************************************************)
(* Stage order and result provenance (SpecPipe).                           *)
(***************************************************************************)
\* The calls an invocation makes, in the order of the pipeline.
StageOrder == <<"capture_screen", "preprocess_image", "extract_text_with_boxes",
                "analyze_screen_elements", "interpret_screen_context",
                "get_detailed_analysis">>

IsPrefix(s, r) == Len(s) <= Len(r) /\ SubSeq(r, 1, Len(s)) = s

\* C16: within one invocation the stages run in the order capture, then
\* preprocess and OCR, then the model calls, then assembly: the calls made so
\* far are an initial part of that order, the preprocessor and OCR run only
\* on a captured frame, the model is called only after OCR has returned its
\* list, and a result is assembled only after all of them.
C16_StagesInOrder ==
    \A i \in Invocations :
        /\ IsPrefix(inv[i].calls, StageOrder)
        /\ Len(inv[i].calls) >= 2 => inv[i].screenshot.t = "frame"
        /\ Len(inv[i].calls) >= 4 => inv[i].elements.t = "arr"
        /\ (inv[i].pc = "done" /\ ~IsError(inv[i].result)) =>
               inv[i].calls = StageOrder

\* An invocation has returned a result after running every stage.
C16_Witness ==
    \E i \in Invocations :
        /\ inv[i].pc = "done"
        /\ ~IsError(inv[i].result)
        /\ Len(inv[i].calls) = 6

\* C17: for any interleaving of concurrent start_monitoring and
\* stop_monitoring calls, a stop never ends up joining a loop whose run flag
\* has been set back to true (such a loop passes its while test again, and
\* the join, and with it stop_monitoring, does not return).
C17_StopNeverJoinsRunningLoop ==
    \A c \in MonCallers :
        caller[c].pc = "stop_join" =>
            ~(is_running /\ IsAlive(caller[c].joining))

(***************************************************************************)
(* Result provenance over a sequence of invocations (SpecPipe).            *)
(***************************************************************************)
\* The parsed response of the commands call of invocation i, Unset when
\* that call fell back.
OwnAnalysis(i) ==
    StoreOf(analyze_screen_elements(inv[i].elements, EncodeB64(inv[i].screenshot),
                                    inv[i].got[1]), Unset)

\* C18: the detailed_analysis of a returned result is the parsed model
\* response of that same invocation, and is empty when that invocation's
\* command analysis fell back; it never carries the parsed response of an
\* earlier invocation.
C18_DetailedAnalysisOfSameInvocation ==
    \A i \in Invocations :
        (inv[i].pc = "done" /\ ~IsError(inv[i].result)) =>
            DictGet(inv[i].result, "detailed_analysis", JNull)
                = (IF OwnAnalysis(i) = Unset THEN JObj(<<>>) ELSE OwnAnalysis(i))

(***************************************************************************)
(* Monitoring through the HTTP API (SpecApi).                              *)
(***************************************************************************)
\* Thread k, started by a /api/monitor/start request, is still polling.
LoopActive(k) == loops[k].pos = "test"

\* C19: once a /api/monitor/stop request has answered monitoring_stopped, no
\* poll loop started through the API is still active, whatever sequence of
\* /api/initialize, /api/monitor/start and /api/monitor/stop requests came
\* before, a second /api/initialize during monitoring included.
C19_NoLoopAfterStopAnswered ==
    (request # Unset /\ request.reply = "monitoring_stopped") =>
        \A k \in 1..Len(loops) : ~LoopActive(k)

(***************************************************************************)
(* Run flag and loop liveness (SpecMon).                                   *)
(***************************************************************************)
\* No call of start_monitoring or stop_monitoring is in progress.
NoCallInProgress == \A c \in MonCallers : caller[c].pc = "idle"

\* C20: from the return of start_monitoring(interval) until stop_monitoring
\* is called, the run flag being true implies that a poll loop is alive, for
\* every interval value start accepts, negative and non-numeric ones
\* included.
C20_RunningImpliesLoopAlive ==
    (NoCallInProgress /\ is_running) => \E t \in Threads : IsAlive(t)

(***************************************************************************)
(* Initialization without a key (SpecApi).                                 *)
(***************************************************************************)
\* JSON object bodies that carry no key: api_key missing, or the empty string.
BodiesWithoutKey == { JObj(<<>>), JObj(<< <<"api_key", JStr("")>> >>) }

\* This step is the /api/initialize handler answering such a request.
InitializeWithoutKeyAnswered ==
    /\ request' # request
    /\ request'.endpoint = "/api/initialize"
    /\ request'.body \in BodiesWithoutKey

=============================================================================
